---- MODULE Spec2Model ----
(***************************************************************************)
(* Order / payment / stock reconciliation of the RambleforceBE backend.    *)
(*                                                                         *)
(* The database rows the handlers of app/routers/orders.py,                *)
(* app/routers/merchandise.py, app/routers/payments.py and                 *)
(* app/utils/order_service.py read and write are the state; every handler  *)
(* is one action of Spec (requests run one at a time).  SpecConc runs two  *)
(* request sessions of create_order / update_order_status step by step     *)
(* against the same rows, as two SessionLocal() sessions do.               *)
(*                                                                         *)
(* Prices and totals are Float columns in the source; the model keeps them *)
(* as integers (whole currency units), so rounding is outside the model.   *)
(***************************************************************************)
EXTENDS Integers, Sequences, FiniteSets, TLC

\* ------------------------------------------------------------------ bounds
InitStock   == 1   \* stock of every merchandise row when the run starts
StockCap    == 1   \* runs are followed while every stock stays in -StockCap..StockCap
MaxQty      == 1   \* largest quantity a request names
MaxLines    == 2   \* longest item list a request carries
MaxOrders   == 1   \* orders rows in a run of Spec and of SpecPay
DeepOrders  == 2   \* orders rows in a run of SpecOrders
MaxPayments == 1   \* payments rows in a run
ConcStockCap == 2  \* SpecConc follows a run while every stock stays in -ConcStockCap..ConcStockCap
AmpleStock  == 2   \* SpecLines: stock of every merchandise row when the run starts
AmpleQty    == 2   \* SpecLines: largest quantity a request names

\* ------------------------------------------------------------ the fixtures
\* Two merchandise rows, as the test fixture creates them.
MerchIds == {1, 2}
\* An id no merchandise row has.
MissingMerchId == 3
\* unit price of a merchandise row (T-Shirt 20.0, Cap 15.0)
Price(m) == IF m = 1 THEN 20 ELSE 15

\* users: 1 is the admin, 2 a regular user
Users == {1, 2}
\* current_user.is_admin, after a faulty variant that takes every user for an admin
is_admin_everyone(u) == TRUE
is_admin(u) == u = 1

\* one registration row, owned by the regular user
RegIds == {1}
RegOwner(r) == 2

\* quantity: int  -- the schema puts no lower bound on it
Quantities == (0 - 1) .. MaxQty

\* the Literal of OrderUpdate.status, after a faulty variant that lets any string through
statuses_unchecked == {"pending", "paid", "shipped", "delivered", "cancelled", "invalid_status"}
OrderStatuses == {"pending", "paid", "shipped", "delivered", "cancelled"}

\* the (merchandise_id, quantity) pairs and the item lists a request may carry
ItemPairs == [merchandise_id : MerchIds \cup {MissingMerchId}, quantity : Quantities]
ItemLists == UNION {[1..n -> ItemPairs] : n \in 0..MaxLines}
\* the item lists of SpecOrders: no zero quantities
DeepItemLists == {items \in ItemLists : \A i \in 1..Len(items) : items[i].quantity # 0}

VARIABLES
    stock,          \* merchandise.stock, per merchandise id
    orders,         \* the orders table: row i has id i; its items are the order_items rows
    payments,       \* the payments table: row i has stripe_payment_intent_id i
    registrations,  \* the registrations table
    req,            \* the request handled last
    resp,           \* the status code it was answered with
    sess,           \* SpecConc: the request sessions in flight
    body            \* the body of the answer to a read request

vars == <<stock, orders, payments, registrations, req, resp, sess, body>>
db   == <<stock, orders, payments, registrations>>

OrderIds == 1..Len(orders)

\* ---------------------------------------------------------------- requests
NoReq == [op |-> "none", user |-> 0, items |-> <<>>, order_id |-> 0,
          status |-> "", registration_id |-> 0, sig_ok |-> TRUE,
          event_type |-> "", intent_id |-> 0, stripe_ok |-> TRUE,
          failed_commit |-> 0, path |-> <<>>]

\* ------------------------------------------------------- inventory helpers
\* merchandise.stock < item.quantity, after two faulty variants of it (a
\* comparison that never fires, and <=) against which the properties are tested
insufficient_always_false(stock_m, quantity) == FALSE
insufficient_off_by_one(stock_m, quantity) == stock_m <= quantity
insufficient(stock_m, quantity) == stock_m < quantity

\* merchandise.stock -= quantity, after a faulty variant that deducts nothing
reserve_noop(stk, m, quantity) == stk
reserve(stk, m, quantity) == [stk EXCEPT ![m] = @ - quantity]

\* merchandise.stock += item.quantity, after a faulty variant that restores nothing
release_noop(stk, m, quantity) == stk
release(stk, m, quantity) == [stk EXCEPT ![m] = @ + quantity]

\* item_total = merchandise.price * item.quantity
item_total(m, quantity) == Price(m) * quantity

\* ------------------------------------------------------ validate_order_items
\* The loop of validate_order_items from item i on: the first missing row
\* answers 404, the first row with stock < quantity answers 400; nothing is
\* written, so every pair is checked against the same stock.
RECURSIVE validate_from(_, _, _, _, _)
validate_from(stk, items, i, total_amount, validated_items) ==
    IF i > Len(items)
    THEN [code |-> 200, total_amount |-> total_amount, validated_items |-> validated_items]
    ELSE LET item == items[i] IN
         IF item.merchandise_id \notin MerchIds
         THEN [code |-> 404, total_amount |-> 0, validated_items |-> <<>>]
         ELSE IF insufficient(stk[item.merchandise_id], item.quantity)
         THEN [code |-> 400, total_amount |-> 0, validated_items |-> <<>>]
         ELSE validate_from(stk, items, i + 1,
                  total_amount + item_total(item.merchandise_id, item.quantity),
                  Append(validated_items,
                         [merchandise_id |-> item.merchandise_id,
                          quantity |-> item.quantity,
                          price |-> item_total(item.merchandise_id, item.quantity)]))

validate_order_items(stk, items) == validate_from(stk, items, 1, 0, <<>>)

\* The loop of create_order over the validated items: one order_items row
\* each (kept on the order), and stock -= quantity.
RECURSIVE reserve_all(_, _, _)
reserve_all(stk, lines, i) ==
    IF i > Len(lines) THEN stk
    ELSE reserve_all(reserve(stk, lines[i].merchandise_id, lines[i].quantity), lines, i + 1)

\* The cancellation loop of update_order_status and of cancel_order.
RECURSIVE release_all(_, _, _)
release_all(stk, lines, i) ==
    IF i > Len(lines) THEN stk
    ELSE release_all(release(stk, lines[i].merchandise_id, lines[i].quantity), lines, i + 1)

\* The reactivation loop of update_order_status: each line is checked against
\* the stock as the lines before it left it, then deducted.
RECURSIVE reactivate_from(_, _, _)
reactivate_from(stk, lines, i) ==
    IF i > Len(lines) THEN [ok |-> TRUE, stock |-> stk]
    ELSE IF insufficient(stk[lines[i].merchandise_id], lines[i].quantity)
    THEN [ok |-> FALSE, stock |-> stk]
    ELSE reactivate_from(reserve(stk, lines[i].merchandise_id, lines[i].quantity), lines, i + 1)

\* -------------------------------------------------------------------- Init
NoSessions == <<>>
\* no body: the request in hand is not a read, or was refused
NoBody == <<>>

\* Requests are handled one at a time: a handler starts once the answer to
\* the request before it has been returned and its session closed.
Idle == req = NoReq

\* the stock values the model follows
InRange(stk) == \A m \in MerchIds : stk[m] \in (0 - StockCap)..StockCap

Init ==
    /\ stock = [m \in MerchIds |-> InitStock]
    /\ orders = <<>>
    /\ payments = <<>>
    /\ registrations = [r \in RegIds |-> [status |-> "interested", payment_status |-> "unpaid"]]
    /\ req = NoReq
    /\ resp = 0
    /\ sess = NoSessions
    /\ body = NoBody

\* ------------------------------------------------- POST /api/v1/orders/
create_order(u, items) ==
    LET v == validate_order_items(stock, items) IN
    /\ Idle
    /\ req' = [NoReq EXCEPT !.op = "create_order", !.user = u, !.items = items]
    /\ IF v.code # 200
       THEN /\ resp' = v.code
            /\ UNCHANGED db
       ELSE /\ orders' = Append(orders,
                   [user_id |-> u, total_amount |-> v.total_amount, status |-> "pending",
                    created_by_id |-> u, updated_by_id |-> u, items |-> v.validated_items])
            /\ stock' = reserve_all(stock, v.validated_items, 1)
            /\ resp' = 200
            /\ UNCHANGED <<payments, registrations>>
    /\ UNCHANGED <<sess, body>>

\* --------------------------------------- PATCH /api/v1/orders/{order_id}
\* What the handler leaves in the database, given the rows it loaded: the
\* answer, the order row and the stock.  A failed reactivation rolls the
\* session back, so the status and audit assignments are dropped with the
\* deductions made before the failing line.  Two faulty variants come first:
\* one that runs the release loop on every update, one that recomputes the
\* total.
status_transition_always_release(stk, order, u, new_status) ==
    [code |-> 200, order |-> [order EXCEPT !.status = new_status, !.updated_by_id = u],
     stock |-> release_all(stk, order.items, 1)]
status_transition_reprices(stk, order, u, new_status) ==
    [code |-> 200, stock |-> stk,
     order |-> [order EXCEPT !.status = new_status, !.updated_by_id = u, !.total_amount = 0]]
status_transition(stk, order, u, new_status) ==
    LET previous_status == order.status
        updated == [order EXCEPT !.status = new_status, !.updated_by_id = u]
    IN  IF new_status = "cancelled" /\ previous_status # "cancelled"
        THEN [code |-> 200, order |-> updated, stock |-> release_all(stk, order.items, 1)]
        ELSE IF previous_status = "cancelled" /\ new_status # "cancelled"
        THEN LET r == reactivate_from(stk, order.items, 1) IN
             IF r.ok THEN [code |-> 200, order |-> updated, stock |-> r.stock]
                     ELSE [code |-> 400, order |-> order, stock |-> stk]
        ELSE [code |-> 200, order |-> updated, stock |-> stk]

update_order_status(u, order_id, new_status) ==
    /\ Idle
    /\ req' = [NoReq EXCEPT !.op = "update_order_status", !.user = u,
                            !.order_id = order_id, !.status = new_status]
    /\ UNCHANGED <<payments, registrations, sess, body>>
    /\ IF new_status \notin OrderStatuses
       THEN resp' = 422 /\ UNCHANGED <<stock, orders>>
       ELSE IF ~is_admin(u)
       THEN resp' = 403 /\ UNCHANGED <<stock, orders>>
       ELSE IF order_id \notin OrderIds
       THEN resp' = 404 /\ UNCHANGED <<stock, orders>>
       ELSE LET t == status_transition(stock, orders[order_id], u, new_status) IN
            /\ resp' = t.code
            /\ orders' = [orders EXCEPT ![order_id] = t.order]
            /\ stock' = t.stock

\* ------------------------------------------------ OrderService.cancel_order
cancel_order(order_id, user_id) ==
    /\ order_id \in OrderIds
    /\ Idle
    /\ req' = [NoReq EXCEPT !.op = "cancel_order", !.user = user_id, !.order_id = order_id]
    /\ UNCHANGED <<payments, registrations, sess, body>>
    /\ IF orders[order_id].status = "cancelled"
       THEN resp' = 400 /\ UNCHANGED <<stock, orders>>
       ELSE /\ stock' = release_all(stock, orders[order_id].items, 1)
            /\ orders' = [orders EXCEPT ![order_id].status = "cancelled",
                                        ![order_id].updated_by_id = user_id]
            /\ resp' = 200

\* -------------------------------------------- POST /api/v1/merchandise/order
\* The older endpoint: the same existence and stock checks, then the order is
\* committed, then its line items (recording the unit price) and the stock.
RECURSIVE merchandise_check_from(_, _, _, _, _)
merchandise_check_from(stk, items, i, total_amount, order_items) ==
    IF i > Len(items)
    THEN [code |-> 200, total_amount |-> total_amount, order_items |-> order_items]
    ELSE LET item == items[i] IN
         IF item.merchandise_id \notin MerchIds
         THEN [code |-> 404, total_amount |-> 0, order_items |-> <<>>]
         ELSE IF stk[item.merchandise_id] < item.quantity
         THEN [code |-> 400, total_amount |-> 0, order_items |-> <<>>]
         ELSE merchandise_check_from(stk, items, i + 1,
                  total_amount + Price(item.merchandise_id) * item.quantity,
                  Append(order_items,
                         [merchandise_id |-> item.merchandise_id,
                          quantity |-> item.quantity,
                          price |-> Price(item.merchandise_id)]))

\* The handler returns the ORM row under response_model=dict, which the
\* framework cannot serialise: the rows are committed and the answer is 500.
merchandise_create_order(u, items) ==
    LET v == merchandise_check_from(stock, items, 1, 0, <<>>) IN
    /\ Idle
    /\ req' = [NoReq EXCEPT !.op = "merchandise_create_order", !.user = u, !.items = items]
    /\ IF v.code # 200
       THEN /\ resp' = v.code
            /\ UNCHANGED db
       ELSE /\ orders' = Append(orders,
                   [user_id |-> u, total_amount |-> v.total_amount, status |-> "pending",
                    created_by_id |-> 0, updated_by_id |-> 0, items |-> v.order_items])
            /\ stock' = reserve_all(stock, v.order_items, 1)
            /\ resp' = 500
            /\ UNCHANGED <<payments, registrations>>
    /\ UNCHANGED <<sess, body>>

\* ------------------------------ POST /api/v1/payments/create-payment-intent
\* None is 0.  Every HTTPException raised inside the try block is caught by
\* its own "except Exception" and answered 500.  With an order_id given the
\* registration_id is stored as sent, unchecked.
create_payment_intent(u, order_id, registration_id, stripe_ok) ==
    /\ Idle
    /\ req' = [NoReq EXCEPT !.op = "create_payment_intent", !.user = u,
                            !.order_id = order_id, !.registration_id = registration_id,
                            !.stripe_ok = stripe_ok]
    /\ UNCHANGED <<stock, orders, registrations, sess, body>>
    /\ LET found ==
           IF order_id # 0
           THEN order_id \in OrderIds /\ orders[order_id].user_id = u
           ELSE IF registration_id # 0
           THEN registration_id \in RegIds /\ RegOwner(registration_id) = u
           ELSE FALSE
       IN IF ~found \/ ~stripe_ok
          THEN resp' = 500 /\ UNCHANGED payments
          ELSE \/ /\ payments' = Append(payments,
                         [status |-> "pending", user_id |-> u, order_id |-> order_id,
                          registration_id |-> registration_id,
                          payment_type |-> IF order_id # 0 THEN "merchandise"
                                           ELSE "event_registration"])
                  /\ resp' = 200
               \* registration_id is a foreign key: a database that enforces it
               \* refuses the row of a registration that does not exist
               \/ /\ registration_id \notin RegIds \cup {0}
                  /\ resp' = 500 /\ UNCHANGED payments

\* ---------------------------------------- POST /api/v1/payments/webhook
EventTypes == {"payment_intent.succeeded", "payment_intent.payment_failed"}

\* StripeService.verify_webhook_signature: construct_event raises unless the
\* signature header is valid for the payload (sig_ok says whether it is).  A
\* faulty variant that lets every payload through comes first.
verify_webhook_signature_accepts_all(sig_ok) == TRUE
verify_webhook_signature(sig_ok) == sig_ok

\* order.status = "paid", after a faulty variant that moves a paid order on
mark_paid_advancing(order) ==
    [order EXCEPT !.status = IF @ = "paid" THEN "shipped" ELSE "paid"]
mark_paid(order) == [order EXCEPT !.status = "paid"]

stripe_webhook(sig_ok, event_type, intent_id) ==
    /\ Idle
    /\ req' = [NoReq EXCEPT !.op = "stripe_webhook", !.sig_ok = sig_ok,
                            !.event_type = event_type, !.intent_id = intent_id]
    /\ UNCHANGED <<stock, sess, body>>
    /\ IF ~verify_webhook_signature(sig_ok)
       THEN resp' = 400 /\ UNCHANGED <<orders, payments, registrations>>
       ELSE /\ resp' = 200
            /\ IF event_type = "payment_intent.succeeded" /\ intent_id \in 1..Len(payments)
               THEN LET payment == payments[intent_id] IN
                    /\ payments' = [payments EXCEPT ![intent_id].status = "succeeded"]
                    /\ IF payment.order_id # 0
                       THEN /\ orders' = IF payment.order_id \in OrderIds
                                         THEN [orders EXCEPT ![payment.order_id] = mark_paid(@)]
                                         ELSE orders
                            /\ UNCHANGED registrations
                       ELSE IF payment.registration_id # 0
                       THEN /\ registrations' =
                                 IF payment.registration_id \in RegIds
                                 THEN [registrations EXCEPT
                                          ![payment.registration_id].payment_status = "paid",
                                          ![payment.registration_id].status = "registered"]
                                 ELSE registrations
                            /\ UNCHANGED orders
                       ELSE UNCHANGED <<orders, registrations>>
               ELSE UNCHANGED <<orders, payments, registrations>>

\* stripe_webhook when the lookup of the payment or the commit raises: the
\* except branch answers 400, and get_db closes the session, which drops what
\* was not committed.
stripe_webhook_storage_failure(event_type, intent_id) ==
    /\ Idle
    /\ event_type = "payment_intent.succeeded"
    /\ req' = [NoReq EXCEPT !.op = "stripe_webhook_storage_failure",
                            !.event_type = event_type, !.intent_id = intent_id,
                            !.failed_commit = 1]
    /\ resp' = 400
    /\ UNCHANGED <<stock, orders, payments, registrations, sess, body>>

\* ------------------------------------------------------------------ get_db
\* The answer is returned and the request's session closed.
close_session ==
    /\ ~Idle
    /\ req' = NoReq
    /\ resp' = 0
    /\ body' = NoBody
    /\ UNCHANGED <<stock, orders, payments, registrations, sess>>

\* -------------------------------------------------------------------- Next
\* The requests that arrive.  Each specification bounds the rows its runs
\* create and follows a run while the stock stays in range; the handlers
\* themselves have no such limits.
InBounds(max_orders) ==
    /\ Len(orders') <= max_orders
    /\ Len(payments') <= MaxPayments
    /\ InRange(stock')

\* Spec: the order handlers of both routers, one order deep, every caller
\* and every item list.
Next ==
    \/ close_session
    \/ \E u \in Users, items \in ItemLists :
          create_order(u, items) /\ InBounds(MaxOrders)
    \/ \E u \in Users, order_id \in 1..(Len(orders) + 1),
          new_status \in OrderStatuses \cup {"invalid_status"} :
          update_order_status(u, order_id, new_status) /\ InBounds(MaxOrders)
    \/ \E order_id \in OrderIds, u \in Users :
          cancel_order(order_id, u) /\ InBounds(MaxOrders)
    \/ \E u \in Users, items \in ItemLists :
          merchandise_create_order(u, items) /\ InBounds(MaxOrders)

Spec == Init /\ [][Next]_vars

\* SpecOrders: the orders router two orders deep, orders placed by the
\* regular user.
NextOrders ==
    \/ close_session
    \/ \E items \in DeepItemLists :
          create_order(2, items) /\ InBounds(DeepOrders)
    \/ \E u \in Users, order_id \in 1..(Len(orders) + 1),
          new_status \in OrderStatuses \cup {"invalid_status"} :
          update_order_status(u, order_id, new_status) /\ InBounds(DeepOrders)
    \/ \E order_id \in OrderIds, u \in Users :
          cancel_order(order_id, u) /\ InBounds(DeepOrders)

SpecOrders == Init /\ [][NextOrders]_vars

\* SpecPay: orders, payment intents and webhook events, one order deep.
NextPay ==
    \/ close_session
    \/ \E u \in Users, items \in ItemLists :
          create_order(u, items) /\ InBounds(MaxOrders)
    \/ \E u \in Users, order_id \in 1..(Len(orders) + 1),
          new_status \in OrderStatuses \cup {"invalid_status"} :
          update_order_status(u, order_id, new_status) /\ InBounds(MaxOrders)
    \/ \E u \in Users, order_id \in 0..(Len(orders) + 1), registration_id \in {0, 1, 2},
          stripe_ok \in BOOLEAN :
          create_payment_intent(u, order_id, registration_id, stripe_ok) /\ InBounds(MaxOrders)
    \/ \E sig_ok \in BOOLEAN, event_type \in EventTypes, intent_id \in 1..(Len(payments) + 1) :
          stripe_webhook(sig_ok, event_type, intent_id) /\ InBounds(MaxOrders)
    \/ \E event_type \in EventTypes, intent_id \in 1..(Len(payments) + 1) :
          stripe_webhook_storage_failure(event_type, intent_id) /\ InBounds(MaxOrders)

SpecPay == Init /\ [][NextPay]_vars

\* ---------------------------------------------------------------- SpecLines
\* Both creation endpoints and the status update on a fuller shelf, with
\* well-formed requests: one or more lines, existing items, quantities from 1.
LineQuantities == 1..AmpleQty
LineItemLists ==
    UNION {[1..n -> [merchandise_id : MerchIds, quantity : LineQuantities]] : n \in 1..MaxLines}

InitLines ==
    /\ stock = [m \in MerchIds |-> AmpleStock]
    /\ orders = <<>>
    /\ payments = <<>>
    /\ registrations = [r \in RegIds |-> [status |-> "interested", payment_status |-> "unpaid"]]
    /\ req = NoReq
    /\ resp = 0
    /\ sess = NoSessions
    /\ body = NoBody

LinesInBounds ==
    /\ Len(orders') <= MaxOrders
    /\ \A m \in MerchIds : stock'[m] \in 0..AmpleStock

NextLines ==
    \/ close_session
    \/ \E u \in Users, items \in LineItemLists :
          create_order(u, items) /\ LinesInBounds
    \/ \E u \in Users, items \in LineItemLists :
          merchandise_create_order(u, items) /\ LinesInBounds
    \/ \E u \in Users, order_id \in 1..(Len(orders) + 1), new_status \in OrderStatuses :
          update_order_status(u, order_id, new_status) /\ LinesInBounds

SpecLines == InitLines /\ [][NextLines]_vars

\* ----------------------------------------------------------------- SpecFail
\* The handlers when the database raises in the middle of their unit of work.

\* create_order, db.flush() (line 78) or db.commit() (line 95) raising: the
\* except branch rolls the session back and answers 500.
create_order_storage_failure(u, items) ==
    LET v == validate_order_items(stock, items) IN
    /\ Idle
    /\ v.code = 200
    /\ req' = [NoReq EXCEPT !.op = "create_order_storage_failure", !.user = u,
                            !.items = items, !.failed_commit = 1]
    /\ resp' = 500
    /\ UNCHANGED <<stock, orders, payments, registrations, sess, body>>

\* update_order_status, db.commit() (line 192) raising: rollback and 500.
update_order_status_storage_failure(u, order_id, new_status) ==
    /\ Idle
    /\ new_status \in OrderStatuses
    /\ is_admin(u)
    /\ order_id \in OrderIds
    /\ status_transition(stock, orders[order_id], u, new_status).code = 200
    /\ req' = [NoReq EXCEPT !.op = "update_order_status_storage_failure", !.user = u,
                            !.order_id = order_id, !.status = new_status,
                            !.failed_commit = 1]
    /\ resp' = 500
    /\ UNCHANGED <<stock, orders, payments, registrations, sess, body>>

\* merchandise.create_order with its first commit (line 50) or its second
\* (line 63) raising.  Nothing catches the exception: the answer is 500 and
\* get_db closes the session, which drops what was not committed.  The order
\* row committed at line 50 stays when it is the second commit that fails.
merchandise_create_order_storage_failure(u, items, failed_commit) ==
    LET v == merchandise_check_from(stock, items, 1, 0, <<>>) IN
    /\ Idle
    /\ v.code = 200
    /\ req' = [NoReq EXCEPT !.op = "merchandise_create_order_storage_failure", !.user = u,
                            !.items = items, !.failed_commit = failed_commit]
    /\ resp' = 500
    /\ orders' = IF failed_commit = 1 THEN orders
                 ELSE Append(orders,
                        [user_id |-> u, total_amount |-> v.total_amount, status |-> "pending",
                         created_by_id |-> 0, updated_by_id |-> 0, items |-> <<>>])
    /\ UNCHANGED <<stock, payments, registrations, sess, body>>

NextFail ==
    \/ close_session
    \/ \E items \in DeepItemLists :
          create_order(2, items) /\ InBounds(MaxOrders)
    \/ \E items \in DeepItemLists :
          create_order_storage_failure(2, items) /\ InBounds(MaxOrders)
    \/ \E u \in Users, order_id \in 1..(Len(orders) + 1), new_status \in OrderStatuses :
          update_order_status(u, order_id, new_status) /\ InBounds(MaxOrders)
    \/ \E order_id \in OrderIds, new_status \in OrderStatuses :
          update_order_status_storage_failure(1, order_id, new_status) /\ InBounds(MaxOrders)
    \/ \E items \in DeepItemLists, failed_commit \in {1, 2} :
          merchandise_create_order_storage_failure(2, items, failed_commit)
             /\ InBounds(MaxOrders)

SpecFail == Init /\ [][NextFail]_vars

\* ----------------------------------------------------------------- SpecRead
\* The GET routes of the orders router.  A handler is a function of the rows
\* and the caller; it answers with a status code and a body.

\* limit: int = 10
PageLimit == 10

\* The response models OrderWithItems / OrderItemResponse declare
\* created_by_id and updated_by_id as int: a row that holds NULL there (0)
\* cannot be serialised, and the answer is 500.
serialisable(order) == order.created_by_id # 0 /\ order.updated_by_id # 0

\* ids of the rows of a query over orders, newest first, cut at the limit
RECURSIVE newest_first(_, _)
newest_first(ids, limit) ==
    IF ids = {} \/ limit = 0 THEN <<>>
    ELSE LET top == CHOOSE i \in ids : \A j \in ids : j <= i
         IN  <<top>> \o newest_first(ids \ {top}, limit - 1)

\* answer of a listing whose response model is List[OrderWithItems]
listing(ids) ==
    IF \A k \in 1..Len(ids) : serialisable(orders[ids[k]])
    THEN [code |-> 200, body |-> ids]
    ELSE [code |-> 500, body |-> NoBody]

\* GET /my-orders
get_user_orders(u) ==
    listing(newest_first({i \in OrderIds : orders[i].user_id = u}, PageLimit))

\* GET /{order_id}
get_order(u, order_id) ==
    IF order_id \notin OrderIds \/ orders[order_id].user_id # u
    THEN [code |-> 404, body |-> NoBody]
    ELSE listing(<<order_id>>)

\* GET /admin/all
get_all_orders(u) ==
    IF ~is_admin(u) THEN [code |-> 403, body |-> NoBody]
    ELSE listing(newest_first(OrderIds, PageLimit))

\* GET /my-orders/summary: the query joins order_items, so an order without
\* line items has no row; OrderSummary declares updated_by_id, which the
\* handler never passes, so building the first entry raises and the answer
\* is 500.
get_user_orders_summary(u) ==
    LET rows == newest_first({i \in OrderIds : orders[i].user_id = u /\ orders[i].items # <<>>},
                             PageLimit)
    IN  IF rows = <<>> THEN [code |-> 200, body |-> <<>>]
        ELSE [code |-> 500, body |-> NoBody]

\* GET /{order_id}/detail: OrderDetailResponse is built without the
\* created_by_id and updated_by_id its base class declares, which raises.
get_order_detail(u, order_id) ==
    IF order_id \notin OrderIds \/ orders[order_id].user_id # u
    THEN [code |-> 404, body |-> NoBody]
    ELSE [code |-> 500, body |-> NoBody]

\* GET /stats: total_orders and total_revenue (the body as a pair)
RECURSIVE total_revenue(_)
total_revenue(ids) ==
    IF ids = {} THEN 0
    ELSE LET i == CHOOSE j \in ids : TRUE
         IN  orders[i].total_amount + total_revenue(ids \ {i})

get_order_statistics(u) ==
    IF ~is_admin(u) THEN [code |-> 403, body |-> NoBody]
    ELSE [code |-> 200, body |-> <<Len(orders), total_revenue(OrderIds)>>]

\* the GET routes of the router, in the order their decorators register them
GetRoutes ==
    << [pattern |-> <<"my-orders">>,            endpoint |-> "get_user_orders"],
       [pattern |-> <<"{order_id}">>,           endpoint |-> "get_order"],
       [pattern |-> <<"admin", "all">>,         endpoint |-> "get_all_orders"],
       [pattern |-> <<"my-orders", "summary">>, endpoint |-> "get_user_orders_summary"],
       [pattern |-> <<"{order_id}", "detail">>, endpoint |-> "get_order_detail"],
       [pattern |-> <<"stats">>,                endpoint |-> "get_order_statistics"] >>

\* a path (its segments after the router's prefix) matches a route's pattern:
\* as many segments, each equal to the pattern's unless that is a parameter
matches(pattern, path) ==
    /\ Len(pattern) = Len(path)
    /\ \A k \in 1..Len(path) : pattern[k] = "{order_id}" \/ pattern[k] = path[k]

\* the first route that matches, in registration order; 0 when none does
route_of(path) ==
    LET hits == {r \in 1..Len(GetRoutes) : matches(GetRoutes[r].pattern, path)}
    IN  IF hits = {} THEN 0 ELSE CHOOSE r \in hits : \A q \in hits : r <= q

\* order_id: int -- the segments that parse as an integer, and their values
IntSegments == {"1", "2", "3"}
int_of(segment) == CASE segment = "1" -> 1 [] segment = "2" -> 2 [] segment = "3" -> 3

\* GET <prefix>/<path> by user u: the route is chosen, its path parameter
\* converted (422 when it is not an integer) and the handler run.
http_get(u, path) ==
    LET r == route_of(path)
        endpoint == IF r = 0 THEN "no_route" ELSE GetRoutes[r].endpoint
        takes_id == r # 0 /\ GetRoutes[r].pattern[1] = "{order_id}"
        order_id == IF takes_id /\ path[1] \in IntSegments THEN int_of(path[1]) ELSE 0
        answer ==
            IF r = 0 THEN [code |-> 404, body |-> NoBody]
            ELSE IF takes_id /\ path[1] \notin IntSegments
            THEN [code |-> 422, body |-> NoBody]
            ELSE CASE endpoint = "get_user_orders" -> get_user_orders(u)
                   [] endpoint = "get_order" -> get_order(u, order_id)
                   [] endpoint = "get_all_orders" -> get_all_orders(u)
                   [] endpoint = "get_user_orders_summary" -> get_user_orders_summary(u)
                   [] endpoint = "get_order_detail" -> get_order_detail(u, order_id)
                   [] endpoint = "get_order_statistics" -> get_order_statistics(u)
    IN  /\ Idle
        /\ req' = [NoReq EXCEPT !.op = endpoint, !.user = u, !.path = path,
                                !.order_id = order_id]
        /\ resp' = answer.code
        /\ body' = answer.body
        /\ UNCHANGED <<stock, orders, payments, registrations, sess>>

\* the paths requested
GetPaths ==
    { <<"my-orders">>, <<"1">>, <<"2">>, <<"3">>, <<"stats">>, <<"admin", "all">>,
      <<"my-orders", "summary">>, <<"1", "detail">>, <<"2", "detail">>,
      <<"stats", "detail">>, <<"no", "such", "route">> }

\* the item lists of SpecRead: one line or more, existing items, one unit a line
ReadItemLists ==
    {items \in ItemLists :
        /\ Len(items) >= 1
        /\ \A k \in 1..Len(items) :
              items[k].merchandise_id \in MerchIds /\ items[k].quantity = 1}

NextRead ==
    \/ close_session
    \/ \E u \in Users, items \in ReadItemLists :
          create_order(u, items) /\ InBounds(DeepOrders)
    \/ \E u \in Users, items \in ReadItemLists :
          merchandise_create_order(u, items) /\ InBounds(DeepOrders)
    \/ \E u \in Users, path \in GetPaths :
          http_get(u, path) /\ InBounds(DeepOrders)

SpecRead == Init /\ [][NextRead]_vars

\* ================================================================ SpecConc
\* Two requests in flight, each in its own SessionLocal() session (get_db).
\* A session reads a row the first time the handler touches it and keeps it
\* in its identity map; assignments stay in the session until commit, whose
\* flush writes the changed attributes as absolute values
\* (UPDATE merchandise SET stock = <value>) and makes them visible.  No row is
\* locked between the read and the commit, and no version column is mapped.
\* The handlers' bodies hold no await, so inside one event loop a body runs
\* to its commit; the two sessions are those of two worker processes (or two
\* instances of the application) on the one database.
Procs == {1, 2}

\* merchandise rows of a session's identity map: loaded or not, the stock
\* as read, and the stock as the handler has left it
NotLoaded == [loaded |-> FALSE, read |-> 0, value |-> 0]
IdleSession ==
    [pc |-> "idle", op |-> "none", user |-> 0, items |-> <<>>, i |-> 0,
     merch |-> [m \in MerchIds |-> NotLoaded], validated_items |-> <<>>,
     total_amount |-> 0, order_id |-> 0, new_status |-> "", previous_status |-> "",
     code |-> 0]

InitConc ==
    /\ stock = [m \in MerchIds |-> InitStock]
    /\ orders = <<>>
    /\ payments = <<>>
    /\ registrations = [r \in RegIds |-> [status |-> "interested", payment_status |-> "unpaid"]]
    /\ req = NoReq
    /\ resp = 0
    /\ sess = [p \in Procs |-> IdleSession]
    /\ body = NoBody

\* The handler has answered: commit (or the close of a failed request) has
\* expired the rows of the identity map; what is left is the answer.
answered(s, code) ==
    [IdleSession EXCEPT !.pc = "done", !.op = s.op, !.user = s.user, !.order_id = s.order_id,
                        !.new_status = s.new_status, !.code = code]

\* item.merchandise / db.query(Merchandise).get(id): the row of the identity
\* map, read from the committed table if the session has not loaded it yet
load_merchandise(s, m) ==
    IF s.merch[m].loaded THEN s
    ELSE [s EXCEPT !.merch[m] = [loaded |-> TRUE, read |-> stock[m], value |-> stock[m]]]

\* the flush of commit: every merchandise row whose stock the session changed
flush_stock(s) ==
    [m \in MerchIds |->
        IF s.merch[m].loaded /\ s.merch[m].value # s.merch[m].read
        THEN s.merch[m].value ELSE stock[m]]

\* create_order, lines 59-60: the session opens and validation starts
begin_create_order(p, u, items) ==
    /\ sess[p].pc = "idle"
    /\ sess' = [sess EXCEPT ![p] =
           [IdleSession EXCEPT !.pc = "validate", !.op = "create_order", !.user = u,
                               !.items = items, !.i = 1]]
    /\ UNCHANGED <<stock, orders, payments, registrations, req, resp, body>>

\* validate_order_items, one turn of the loop (lines 31-47), and line 49
validate_item(p) ==
    LET s == sess[p] IN
    /\ s.pc = "validate"
    /\ UNCHANGED <<stock, orders, payments, registrations, req, resp, body>>
    /\ IF s.i > Len(s.items)
       THEN sess' = [sess EXCEPT ![p].pc = "commit"]
       ELSE LET item == s.items[s.i] IN
            IF item.merchandise_id \notin MerchIds
            THEN sess' = [sess EXCEPT ![p] = answered(s, 404)]
            ELSE LET t == load_merchandise(s, item.merchandise_id) IN
                 IF insufficient(t.merch[item.merchandise_id].value, item.quantity)
                 THEN sess' = [sess EXCEPT ![p] = answered(s, 400)]
                 ELSE sess' = [sess EXCEPT ![p] =
                          [t EXCEPT !.i = s.i + 1,
                                    !.total_amount = @ + item_total(item.merchandise_id, item.quantity),
                                    !.validated_items = Append(@,
                                        [merchandise_id |-> item.merchandise_id,
                                         quantity |-> item.quantity,
                                         price |-> item_total(item.merchandise_id, item.quantity)])]]

\* the stock of the session's rows after merchandise.stock -= quantity for
\* every validated item (lines 81-93)
RECURSIVE session_reserve_all(_, _, _)
session_reserve_all(merch, lines, i) ==
    IF i > Len(lines) THEN merch
    ELSE session_reserve_all(
             [merch EXCEPT ![lines[i].merchandise_id].value = @ - lines[i].quantity],
             lines, i + 1)

\* create_order, lines 68-97: the order and its items are added, the stock
\* assignments made in the session, and everything flushed and committed
commit_create_order(p) ==
    LET s == sess[p]
        t == [s EXCEPT !.merch = session_reserve_all(s.merch, s.validated_items, 1)]
    IN
    /\ s.pc = "commit" /\ s.op = "create_order"
    /\ orders' = Append(orders,
           [user_id |-> s.user, total_amount |-> s.total_amount, status |-> "pending",
            created_by_id |-> s.user, updated_by_id |-> s.user, items |-> s.validated_items])
    /\ stock' = flush_stock(t)
    /\ sess' = [sess EXCEPT ![p] = answered(s, 200)]
    /\ UNCHANGED <<payments, registrations, req, resp, body>>

\* update_order_status, lines 156-168 and the choice of branch (171, 177)
begin_update_order_status(p, u, order_id, new_status) ==
    /\ sess[p].pc = "idle"
    /\ UNCHANGED <<stock, orders, payments, registrations, req, resp, body>>
    /\ LET s == [IdleSession EXCEPT !.op = "update_order_status", !.user = u,
                                    !.order_id = order_id, !.new_status = new_status]
       IN IF ~is_admin(u)
          THEN sess' = [sess EXCEPT ![p] = answered(s, 403)]
          ELSE IF order_id \notin OrderIds
          THEN sess' = [sess EXCEPT ![p] = answered(s, 404)]
          ELSE LET previous_status == orders[order_id].status IN
               sess' = [sess EXCEPT ![p] =
                   [s EXCEPT !.previous_status = previous_status, !.i = 1,
                             !.pc = IF (new_status = "cancelled") # (previous_status = "cancelled")
                                    THEN "adjust" ELSE "commit"]]

\* one turn of the loop over order.items (lines 172-174 or 179-187)
adjust_item(p) ==
    LET s == sess[p] IN
    /\ s.pc = "adjust"
    /\ UNCHANGED <<stock, orders, payments, registrations, req, resp, body>>
    /\ IF s.i > Len(orders[s.order_id].items)
       THEN sess' = [sess EXCEPT ![p].pc = "commit"]
       ELSE LET item == orders[s.order_id].items[s.i]
                t == load_merchandise(s, item.merchandise_id)
            IN  IF s.new_status = "cancelled"
                THEN sess' = [sess EXCEPT ![p] =
                         [t EXCEPT !.i = s.i + 1,
                                   !.merch[item.merchandise_id].value = @ + item.quantity]]
                ELSE IF insufficient(t.merch[item.merchandise_id].value, item.quantity)
                THEN sess' = [sess EXCEPT ![p] = answered(s, 400)]
                ELSE sess' = [sess EXCEPT ![p] =
                         [t EXCEPT !.i = s.i + 1,
                                   !.merch[item.merchandise_id].value = @ - item.quantity]]

\* lines 191-194: the status, the audit field and the stock are written
commit_update_order_status(p) ==
    LET s == sess[p] IN
    /\ s.pc = "commit" /\ s.op = "update_order_status"
    /\ orders' = [orders EXCEPT ![s.order_id].status = s.new_status,
                                ![s.order_id].updated_by_id = s.user]
    /\ stock' = flush_stock(s)
    /\ sess' = [sess EXCEPT ![p] = answered(s, 200)]
    /\ UNCHANGED <<payments, registrations, req, resp, body>>

\* get_db, lines 17-20: the answer is returned and the session closed
close(p) ==
    /\ sess[p].pc = "done"
    /\ sess' = [sess EXCEPT ![p] = IdleSession]
    /\ UNCHANGED <<stock, orders, payments, registrations, req, resp, body>>

\* the item lists of SpecConc: one line, a positive quantity
ConcItemLists ==
    {items \in ItemLists :
        /\ Len(items) = 1
        /\ items[1].quantity >= 1 /\ items[1].merchandise_id \in MerchIds}

\* the statuses SpecConc's updates ask for: a cancellation, a reactivation
ConcStatuses == {"pending", "cancelled"}

ConcInBounds ==
    /\ Len(orders') <= DeepOrders
    /\ \A m \in MerchIds : stock'[m] \in (0 - ConcStockCap)..ConcStockCap

NextConc ==
    \E p \in Procs :
        \/ \E items \in ConcItemLists : begin_create_order(p, 2, items)
        \/ validate_item(p)
        \/ commit_create_order(p) /\ ConcInBounds
        \/ \E order_id \in OrderIds, new_status \in ConcStatuses :
              begin_update_order_status(p, 1, order_id, new_status)
        \/ adjust_item(p)
        \/ commit_update_order_status(p) /\ ConcInBounds
        \/ close(p)

SpecConc == InitConc /\ [][NextConc]_vars

\* ================================================================== claims
\* What the claims speak of, stated without the handlers' own operators.

\* the quantity a list of lines names for merchandise m, over all its lines
RECURSIVE Demand(_, _)
Demand(lines, m) ==
    IF lines = <<>> THEN 0
    ELSE (IF Head(lines).merchandise_id = m THEN Head(lines).quantity ELSE 0)
         + Demand(Tail(lines), m)

\* sum over the pairs of unit price x quantity
RECURSIVE PricedTotal(_)
PricedTotal(lines) ==
    IF lines = <<>> THEN 0
    ELSE Price(Head(lines).merchandise_id) * Head(lines).quantity + PricedTotal(Tail(lines))

\* pair i of a list fails validation against stock stk
PairMissing(items, i) == items[i].merchandise_id \notin MerchIds
PairShort(stk, items, i) ==
    /\ items[i].merchandise_id \in MerchIds
    /\ stk[items[i].merchandise_id] < items[i].quantity
PairFails(stk, items, i) == PairMissing(items, i) \/ PairShort(stk, items, i)
FirstFailing(stk, items) ==
    CHOOSE i \in 1..Len(items) :
        PairFails(stk, items, i) /\ \A j \in 1..(i - 1) : ~PairFails(stk, items, j)

\* the step is the handling of a request of this kind
Handles(op) == req.op = "none" /\ req'.op = op

\* the step is an admin's status update of an existing order
UpdatesOrder == Handles("update_order_status") /\ is_admin(req'.user)
                /\ req'.order_id \in OrderIds /\ req'.status \in OrderStatuses

\* C1: in every reachable state every merchandise item's stock is >= 0.
C1_StockNonNegative == \A m \in MerchIds : stock[m] >= 0

\* C4: a successful create_order persists exactly one new order, pending,
\* owned by the caller, whose total is the sum of unit price x quantity over
\* the requested pairs, and takes from every item's stock exactly the
\* quantity ordered of it (nothing from an item not ordered).
C4_CreateOrderEffect ==
    [][(Handles("create_order") /\ resp' = 200) =>
        /\ Len(orders') = Len(orders) + 1
        /\ SubSeq(orders', 1, Len(orders)) = orders
        /\ orders'[Len(orders')].status = "pending"
        /\ orders'[Len(orders')].user_id = req'.user
        /\ orders'[Len(orders')].total_amount = PricedTotal(req'.items)
        /\ \A m \in MerchIds : stock'[m] = stock[m] - Demand(req'.items, m)
      ]_vars

\* an order for one unit of each of the two items has been accepted
C4_Witness ==
    /\ req.op = "create_order" /\ resp = 200
    /\ Len(req.items) = 2
    /\ req.items[1].merchandise_id = 1 /\ req.items[1].quantity = 1
    /\ req.items[2].merchandise_id = 2 /\ req.items[2].quantity = 1
    /\ orders[Len(orders)].total_amount = 35
    /\ stock[1] = InitStock - 1 /\ stock[2] = InitStock - 1

\* C5: a create_order for a single pair (m, q) succeeds and leaves stock 0
\* when q is exactly the stock of m, and fails with 400, creating no order and
\* leaving the stock alone, when q is the stock of m plus one.
C5_StockBoundary ==
    [][(/\ Handles("create_order")
        /\ Len(req'.items) = 1
        /\ req'.items[1].merchandise_id \in MerchIds) =>
        LET m == req'.items[1].merchandise_id
            q == req'.items[1].quantity
        IN  /\ (q = stock[m]) => (resp' = 200 /\ stock'[m] = 0
                                  /\ Len(orders') = Len(orders) + 1)
            /\ (q = stock[m] + 1) => (resp' = 400 /\ orders' = orders /\ stock' = stock)
      ]_vars

\* an order took exactly the stock of item 1, and the next request for one
\* more unit of it was refused
C5_Witness ==
    /\ Len(orders) = 1
    /\ Len(orders[1].items) = 1
    /\ orders[1].items[1].merchandise_id = 1
    /\ orders[1].items[1].quantity = InitStock
    /\ stock[1] = 0
    /\ req.op = "create_order" /\ Len(req.items) = 1
    /\ req.items[1].merchandise_id = 1 /\ req.items[1].quantity = stock[1] + 1
    /\ resp = 400

\* C6: when some pair of the list names a missing item or more than the stock
\* of its item, either creation endpoint answers with the error of the first
\* such pair in input order (404 missing, 400 insufficient) and persists
\* nothing: no order, no line item, no stock change.
C6_ValidationAllOrNothing ==
    [][(/\ Handles("create_order") \/ Handles("merchandise_create_order")
        /\ \E i \in 1..Len(req'.items) : PairFails(stock, req'.items, i)) =>
        /\ resp' = IF PairMissing(req'.items, FirstFailing(stock, req'.items))
                   THEN 404 ELSE 400
        /\ UNCHANGED db
      ]_vars

\* a list whose first pair passes and whose second pair asks for more than
\* the stock has been refused
C6_Witness ==
    /\ req.op = "create_order" /\ resp = 400
    /\ Len(req.items) = 2
    /\ ~PairFails(stock, req.items, 1)
    /\ req.items[1].quantity > 0
    /\ PairShort(stock, req.items, 2)
    /\ req.items[1].merchandise_id # req.items[2].merchandise_id

\* C7: a status update to "cancelled" of an order that is pending, paid,
\* shipped or delivered sets it to "cancelled" and gives back to every item
\* the quantities of the order's lines for that item.
C7_CancelReleasesStock ==
    [][(/\ UpdatesOrder
        /\ req'.status = "cancelled"
        /\ orders[req'.order_id].status # "cancelled") =>
        /\ resp' = 200
        /\ orders'[req'.order_id].status = "cancelled"
        /\ \A m \in MerchIds :
              stock'[m] = stock[m] + Demand(orders[req'.order_id].items, m)
      ]_vars

\* an order for one unit of item 1 has been cancelled and the unit is back
C7_Witness ==
    /\ req.op = "update_order_status" /\ req.status = "cancelled" /\ resp = 200
    /\ req.order_id = 1 /\ Len(orders) = 1
    /\ orders[1].status = "cancelled"
    /\ Len(orders[1].items) = 1
    /\ orders[1].items[1].merchandise_id = 1 /\ orders[1].items[1].quantity = 1
    /\ stock[1] = InitStock

\* C8: a cancellation of an order that is already "cancelled", by the status
\* update endpoint or by OrderService.cancel_order, is answered 400 and
\* leaves the order and every stock as they were.
C8_RecancelRejected ==
    [][(/\ \/ UpdatesOrder /\ req'.status = "cancelled"
           \/ Handles("cancel_order")
        /\ orders[req'.order_id].status = "cancelled") =>
        /\ resp' = 400
        /\ orders' = orders
        /\ stock' = stock
      ]_vars

\* C9: a status update that moves a cancelled order to another status while
\* one of its lines asks for more than the current stock of its item is
\* answered 400, leaves the order cancelled and every stock as it was.
C9_ReactivationRejected ==
    [][(/\ UpdatesOrder
        /\ req'.status # "cancelled"
        /\ orders[req'.order_id].status = "cancelled"
        /\ \E i \in 1..Len(orders[req'.order_id].items) :
              PairShort(stock, orders[req'.order_id].items, i)) =>
        /\ resp' = 400
        /\ orders' = orders
        /\ stock' = stock
      ]_vars

\* C10: reactivating a cancelled order, nothing having touched its items
\* since the cancellation, succeeds and takes back exactly what the
\* cancellation released.  In a run of Spec the one order is the only source
\* of stock changes, so every state in which it is cancelled is such a state.
C10_CancelThenReactivate ==
    [][(/\ UpdatesOrder
        /\ Len(orders) = 1
        /\ req'.status # "cancelled"
        /\ orders[req'.order_id].status = "cancelled") =>
        /\ resp' = 200
        /\ orders'[req'.order_id].status = req'.status
        /\ \A m \in MerchIds :
              stock'[m] = stock[m] - Demand(orders[req'.order_id].items, m)
      ]_vars

\* the reservation a committing create_order session is about to write can
\* still be satisfied by the committed stock
CommitsCreate(p) ==
    /\ sess[p].pc = "commit" /\ sess[p].op = "create_order"
    /\ sess'[p].pc = "done" /\ sess'[p].code = 200

\* C2: concurrent create_order requests have their check-and-reserve steps
\* serialized: a request commits only if the committed stock still covers
\* every quantity it reserves (otherwise it is aborted and persists
\* nothing), and the stock never goes negative.
C2_ReservationsSerialized ==
    [][\A p \in Procs : CommitsCreate(p) =>
          \A m \in MerchIds :
              /\ stock[m] >= Demand(sess[p].validated_items, m)
              /\ stock'[m] >= 0
      ]_vars

CommitsUpdate(p) ==
    /\ sess[p].pc = "commit" /\ sess[p].op = "update_order_status"
    /\ sess'[p].pc = "done" /\ sess'[p].code = 200

\* C3: concurrent status updates of one order are serialized: a cancellation
\* that commits when the order has already been cancelled releases nothing
\* more, and a reactivation that commits when the order has already been
\* reactivated reserves nothing more.
C3_TransitionsSerialized ==
    [][\A p \in Procs : CommitsUpdate(p) =>
          LET committed == orders[sess[p].order_id].status IN
          /\ (sess[p].new_status = "cancelled" /\ committed = "cancelled")
                => stock' = stock
          /\ (sess[p].new_status # "cancelled" /\ sess[p].previous_status = "cancelled"
              /\ committed # "cancelled")
                => stock' = stock
      ]_vars

\* the five statuses the specification names
FiveStatuses == {"pending", "paid", "shipped", "delivered", "cancelled"}

\* C11: a status update in which neither the order's status nor the
\* requested one is "cancelled" succeeds and changes the order's status and
\* updated_by_id only: every stock, the total and the line items stay.
C11_PlainTransitionFrame ==
    [][(/\ UpdatesOrder
        /\ req'.status # "cancelled"
        /\ orders[req'.order_id].status # "cancelled") =>
        /\ resp' = 200
        /\ stock' = stock
        /\ orders' = [orders EXCEPT ![req'.order_id].status = req'.status,
                                    ![req'.order_id].updated_by_id = req'.user]
      ]_vars

\* an order of one unit of item 1, placed by the regular user, has been moved
\* to "shipped" by the admin, and the unit is still reserved
C11_Witness ==
    /\ req.op = "update_order_status" /\ req.status = "shipped" /\ resp = 200
    /\ Len(orders) = 1 /\ req.order_id = 1
    /\ orders[1].status = "shipped" /\ orders[1].updated_by_id = 1
    /\ orders[1].created_by_id = 2
    /\ Len(orders[1].items) = 1
    /\ orders[1].items[1].merchandise_id = 1 /\ orders[1].items[1].quantity = 1
    /\ stock[1] = InitStock - 1

\* C12: a payment_intent.succeeded event whose intent id is that of a payment
\* row sets the payment to "succeeded"; the order the payment refers to
\* becomes "paid" with every stock unchanged; the registration the payment
\* refers to becomes paid and registered.
C12_WebhookSuccessEffects ==
    [][(/\ Handles("stripe_webhook")
        /\ req'.sig_ok
        /\ req'.event_type = "payment_intent.succeeded"
        /\ req'.intent_id \in 1..Len(payments)) =>
        LET payment == payments[req'.intent_id] IN
        /\ resp' = 200
        /\ payments'[req'.intent_id].status = "succeeded"
        /\ payment.order_id \in OrderIds =>
              (orders'[payment.order_id].status = "paid" /\ stock' = stock)
        /\ payment.registration_id \in RegIds =>
              /\ registrations'[payment.registration_id].payment_status = "paid"
              /\ registrations'[payment.registration_id].status = "registered"
      ]_vars

\* sum over the lines of quantity x the price recorded on the line
RECURSIVE LineSum(_)
LineSum(lines) ==
    IF lines = <<>> THEN 0
    ELSE Head(lines).quantity * Head(lines).price + LineSum(Tail(lines))

\* C13: for every order, the sum over its line items of quantity x recorded
\* price equals the order's total_amount.
C13_LineItemsSumToTotal ==
    \A i \in OrderIds : LineSum(orders[i].items) = orders[i].total_amount

\* C14: every persisted order has at least one line item and every line
\* item has a quantity > 0.
C14_OrdersHavePositiveLines ==
    \A i \in OrderIds :
        /\ orders[i].items # <<>>
        /\ \A k \in 1..Len(orders[i].items) : orders[i].items[k].quantity > 0

\* C15: every payment row has exactly one of order_id and registration_id
\* set.
C15_PaymentHasOneReference ==
    \A i \in 1..Len(payments) :
        (payments[i].order_id # 0) # (payments[i].registration_id # 0)

\* the step is the handling of a request during which the database raised
StorageFailure ==
    \/ Handles("create_order_storage_failure")
    \/ Handles("update_order_status_storage_failure")
    \/ Handles("merchandise_create_order_storage_failure")

\* C16: a request during which the database raised is answered 500, leaves
\* every stock and every existing order as they were, and leaves no new
\* order without the line items asked for.
C16_StorageFailureRollsBack ==
    [][StorageFailure =>
        /\ resp' = 500
        /\ stock' = stock
        /\ SubSeq(orders', 1, Len(orders)) = orders
        /\ \A i \in (Len(orders) + 1)..Len(orders') :
              Len(orders'[i].items) = Len(req'.items)
      ]_vars

\* C17: a status update (with one of the five statuses) by the regular user
\* (user 2) is answered 403, and one by the admin (user 1) for an id no order
\* has is answered 404; neither changes any row.
C17_UpdateRefusals ==
    [][(Handles("update_order_status") /\ req'.status \in FiveStatuses) =>
        /\ (req'.user = 2) => (resp' = 403 /\ UNCHANGED db)
        /\ (req'.user = 1 /\ req'.order_id \notin OrderIds) => (resp' = 404 /\ UNCHANGED db)
      ]_vars

\* the regular user's update of an existing pending order has been refused
C17_Witness ==
    /\ req.op = "update_order_status" /\ req.user = 2 /\ req.status = "shipped"
    /\ resp = 403
    /\ Len(orders) = 1 /\ req.order_id = 1
    /\ orders[1].status = "pending"
    /\ orders[1].updated_by_id = orders[1].created_by_id

\* C18: a step that changes an order's status leaves on it the identity of
\* the request's actor as updated_by_id (a webhook event has no user: 0).
C18_StatusChangeSetsAuditor ==
    [][\A i \in OrderIds :
          orders'[i].status # orders[i].status => orders'[i].updated_by_id = req'.user
      ]_vars

\* C19: no step changes the total_amount or the line items of an order that
\* exists.
C19_TotalFixedAtCreation ==
    [][\A i \in OrderIds :
          /\ orders'[i].total_amount = orders[i].total_amount
          /\ orders'[i].items = orders[i].items
      ]_vars

\* an order with a total of 20 has been cancelled, reactivated and then paid
\* through the webhook, and its total is still 20
C19_Witness ==
    /\ req.op = "stripe_webhook" /\ resp = 200
    /\ Len(orders) = 1 /\ Len(payments) = 1
    /\ payments[1].status = "succeeded" /\ payments[1].order_id = 1
    /\ orders[1].status = "paid"
    /\ orders[1].updated_by_id = 1 /\ orders[1].created_by_id = 2
    /\ orders[1].total_amount = 20
    /\ Len(orders[1].items) = 1 /\ orders[1].items[1].quantity = 1

\* C20: a status update asking for a status outside the five is answered 422
\* and changes no row; every order's status is one of the five; every new
\* order starts "pending".
C20_StatusEnumerated ==
    [][/\ (Handles("update_order_status") /\ req'.status \notin FiveStatuses) =>
              (resp' = 422 /\ UNCHANGED db)
       /\ \A i \in 1..Len(orders') : orders'[i].status \in FiveStatuses
       /\ \A i \in (Len(orders) + 1)..Len(orders') : orders'[i].status = "pending"
      ]_vars

\* the admin's update of an existing order to an unknown status has been
\* refused
C20_Witness ==
    /\ req.op = "update_order_status" /\ req.user = 1 /\ req.status = "invalid_status"
    /\ resp = 422
    /\ Len(orders) = 1 /\ req.order_id = 1
    /\ orders[1].status \in FiveStatuses

\* the step handles a properly signed payment_intent.succeeded event whose
\* intent id is that of a payment row
SucceededEvent ==
    /\ Handles("stripe_webhook")
    /\ req'.sig_ok
    /\ req'.event_type = "payment_intent.succeeded"
    /\ req'.intent_id \in 1..Len(payments)

\* C21: the webhook answers 400 and changes no row when the signature is
\* not valid or the processing raises; it answers 200 and changes no row when
\* the event is of another type or no payment row has the intent id.
C21_WebhookRefusals ==
    [][/\ ((Handles("stripe_webhook") /\ ~req'.sig_ok)
             \/ Handles("stripe_webhook_storage_failure")) =>
              (resp' = 400 /\ UNCHANGED db)
       /\ (/\ Handles("stripe_webhook")
           /\ req'.sig_ok
           /\ \/ req'.event_type # "payment_intent.succeeded"
              \/ req'.intent_id \notin 1..Len(payments)) =>
              (resp' = 200 /\ UNCHANGED db)
      ]_vars

\* a success event for the pending payment of a pending order has arrived
\* with a bad signature and has been refused; payment and order are as before
C21_Witness ==
    /\ req.op = "stripe_webhook" /\ ~req.sig_ok /\ resp = 400
    /\ req.event_type = "payment_intent.succeeded" /\ req.intent_id = 1
    /\ Len(payments) = 1 /\ payments[1].status = "pending"
    /\ payments[1].order_id = 1 /\ Len(orders) = 1 /\ orders[1].status = "pending"

\* C22: create_payment_intent naming an order (or, with no order named, a
\* registration) that does not exist or is not the caller's is answered 404
\* and stores no payment.
C22_PaymentIntentNotFound ==
    [][(/\ Handles("create_payment_intent")
        /\ \/ /\ req'.order_id # 0
              /\ ~(req'.order_id \in OrderIds /\ orders[req'.order_id].user_id = req'.user)
           \/ /\ req'.order_id = 0 /\ req'.registration_id # 0
              /\ ~(req'.registration_id \in RegIds
                   /\ RegOwner(req'.registration_id) = req'.user)) =>
        /\ resp' = 404
        /\ payments' = payments
      ]_vars

\* C23: get_order and get_order_detail answer 404 for an order of another
\* user, and get_user_orders answers with exactly the caller's orders.
C23_ReadsIsolatedPerUser ==
    [][/\ (/\ Handles("get_order") \/ Handles("get_order_detail")
           /\ req'.order_id \in OrderIds
           /\ orders[req'.order_id].user_id # req'.user) =>
              (resp' = 404 /\ body' = NoBody)
       /\ Handles("get_user_orders") =>
              /\ resp' = 200
              /\ {body'[k] : k \in 1..Len(body')}
                    = {i \in OrderIds : orders[i].user_id = req'.user}
      ]_vars

\* C24: GET /stats is answered by get_order_statistics: 403 for the regular
\* user, 200 with the totals for the admin.
C24_StatsRouteAnswered ==
    [][(req.op = "none" /\ req'.path = <<"stats">>) =>
        /\ req'.op = "get_order_statistics"
        /\ resp' = IF req'.user = 1 THEN 200 ELSE 403
      ]_vars

\* C25: GET /my-orders/summary answers 200 with one entry for each of the
\* caller's orders, whose item_count is the number of the order's line items
\* and whose total_amount is the order's.
C25_SummaryListsOrders ==
    [][Handles("get_user_orders_summary") =>
        /\ resp' = 200
        /\ {body'[k].id : k \in 1..Len(body')}
              = {i \in OrderIds : orders[i].user_id = req'.user}
        /\ \A k \in 1..Len(body') :
              /\ body'[k].item_count = Len(orders[body'[k].id].items)
              /\ body'[k].total_amount = orders[body'[k].id].total_amount
      ]_vars

\* the quantity of merchandise m that the lines of the non-cancelled orders
\* among the first n hold
RECURSIVE ReservedUpTo(_, _)
ReservedUpTo(n, m) ==
    IF n = 0 THEN 0
    ELSE (IF orders[n].status # "cancelled" THEN Demand(orders[n].items, m) ELSE 0)
         + ReservedUpTo(n - 1, m)

Reserved(m) == ReservedUpTo(Len(orders), m)

\* C26: with requests run one at a time, the stock of every item plus the
\* quantities of it on the lines of the non-cancelled orders is the item's
\* initial stock.
C26_StockConserved ==
    \A m \in MerchIds : stock[m] + Reserved(m) = InitStock

\* C27: whatever the interleaving of two sessions, the committed stock of
\* every item is what the committed, non-cancelled orders leave of the
\* initial stock, as after any serial run of the same requests: no update is
\* lost.
C27_NoLostUpdate ==
    \A m \in MerchIds : stock[m] = InitStock - Reserved(m)

\* C28: a success event for a payment whose order is "shipped" or
\* "delivered" leaves the order's status as it is.
C28_WebhookNeverMovesBack ==
    [][(/\ SucceededEvent
        /\ payments[req'.intent_id].order_id \in OrderIds
        /\ orders[payments[req'.intent_id].order_id].status \in {"shipped", "delivered"}) =>
        orders'[payments[req'.intent_id].order_id].status
           = orders[payments[req'.intent_id].order_id].status
      ]_vars

\* the rows are as the processing of the success event of payment i leaves
\* them
Applied(pays, ords, regs, i) ==
    /\ pays[i].status = "succeeded"
    /\ pays[i].order_id \in 1..Len(ords) => ords[pays[i].order_id].status = "paid"
    /\ (pays[i].order_id = 0 /\ pays[i].registration_id \in RegIds) =>
          /\ regs[pays[i].registration_id].payment_status = "paid"
          /\ regs[pays[i].registration_id].status = "registered"

\* C29: processing a success event leaves the rows as processed, and
\* processing it when the rows are already so changes nothing: a second
\* delivery right after the first yields the state of the first.
C29_WebhookIdempotent ==
    [][SucceededEvent =>
        /\ Applied(payments', orders', registrations', req'.intent_id)
        /\ Applied(payments, orders, registrations, req'.intent_id) => UNCHANGED db
      ]_vars

\* the success event of the payment of registration 1 has been processed
\* (the state of a first and of a repeated delivery alike)
C29_Witness ==
    /\ req.op = "stripe_webhook" /\ req.sig_ok /\ resp = 200
    /\ req.event_type = "payment_intent.succeeded" /\ req.intent_id = 1
    /\ Len(payments) = 1 /\ payments[1].status = "succeeded"
    /\ payments[1].order_id = 0 /\ payments[1].registration_id = 1
    /\ registrations[1].payment_status = "paid"
    /\ registrations[1].status = "registered"

\* C30: POST /api/v1/orders/ accepts a list exactly when
\* POST /api/v1/merchandise/order would accept it in the same state, and then
\* persists the total, the line items (merchandise, quantity, recorded
\* price) and the stock the other endpoint would.
C30_EndpointsAgree ==
    [][Handles("create_order") =>
        LET other == merchandise_check_from(stock, req'.items, 1, 0, <<>>) IN
        /\ (resp' = 200) = (other.code = 200)
        /\ (resp' = 200) =>
              /\ orders'[Len(orders')].total_amount = other.total_amount
              /\ orders'[Len(orders')].items = other.order_items
              /\ stock' = reserve_all(stock, other.order_items, 1)
      ]_vars

====
